---------------------------- MODULE Spec2Model ----------------------------
(***************************************************************************)
(* The channel update synchronisation protocol of the vector repository:   *)
(* outbound (the driver of a locally proposed update) and inbound /        *)
(* processChannelMessage (the handler of a counterparty's message), two    *)
(* nodes, their stores, their event buses and the messages in flight.      *)
(*                                                                         *)
(* Every await of the source is a point where another handler of the same  *)
(* node may run.  A step of the model is the code between two awaits that  *)
(* touch shared state (the store, the transport, the event buses); code    *)
(* that only computes on local values is folded into the step before it.   *)
(***************************************************************************)
EXTENDS Integers, Sequences, FiniteSets, TLC

VARIABLES store, net, hnd, call, subs

vars == <<store, net, hnd, call, subs>>

----------------------------------------------------------------------------
(* Bounds of the model *)

\* Largest latestNonce a store holds in the initial states of SpecInbound.
MaxStoredNonce == 2

\* Outbound calls node A makes on the channel in SpecRetry.
MaxCalls == 2

\* Outbound calls a node makes on one channel in SpecSync, SpecChannels and
\* SpecLive.
MaxSyncCalls == 1

----------------------------------------------------------------------------
(* Values *)

Nodes == {"A", "B"}

Channels == {"c1", "c2"}

Slots == {"h1", "h2"}

Peer(n) == IF n = "A" THEN "B" ELSE "A"

\* A signature is named by the key it recovers to; Forged recovers to no
\* participant's key.
Forged == "forged"

\* Payloads the Update-Application function accepts, and one it rejects.
Payloads == {"p1", "p2"}

Malformed == "bad"

\* undefined, as an update, a state, an error
NoUpdate == [absent |-> "update"]

NoState == [absent |-> "state"]

NoError == [absent |-> "error"]

ChannelUpdate(c, n, t, p, cpi, sigs) ==
    [channelAddress |-> c, nonce |-> n, type |-> t, payload |-> p,
     counterpartyPublicIdentifier |-> cpi,
     commitment |-> [signatures |-> sigs]]

ChannelState(c, parts, n, u) ==
    [channelAddress |-> c, participants |-> parts, latestNonce |-> n,
     latestUpdate |-> u]

\* new ChannelUpdateError(reason, update, state, context): the context is
\* never read by outbound or inbound and is left out.
ChannelUpdateError(reason, update, state) ==
    [message |-> reason, update |-> update, state |-> state]

ChannelMessage(to, from, update, latestUpdate) ==
    [to |-> to, from |-> from, kind |-> "channel", update |-> update,
     latestUpdate |-> latestUpdate, error |-> NoError]

ErrorMessage(to, from, error) ==
    [to |-> to, from |-> from, kind |-> "error", update |-> NoUpdate,
     latestUpdate |-> NoUpdate, error |-> error]

isChannelMessage(m) == m.kind = "channel"

isChannelState(r) == "latestNonce" \in DOMAIN r

----------------------------------------------------------------------------
(* The collaborators the protocol consumes *)

\* commitment.assertSignatures(): throws when a signature present does not
\* recover to a participant's key.
assertSignatures(commitment) ==
    \A i \in 1..Len(commitment.signatures) : commitment.signatures[i] \in Nodes

\* commitment.addSignature(sig): the commitment with sig attached.  Updates
\* and commitments are immutable values: the commitment it is called on
\* keeps its signatures.
addSignature(commitment, sig) ==
    [commitment EXCEPT !.signatures = Append(@, sig)]

\* applyUpdate(update, state): the next state, or ApplyFailed (it throws)
\* when the update does not extend the state by one nonce on the same
\* channel or its payload is malformed.
applyUpdateOk(update, state) ==
    /\ update.channelAddress = state.channelAddress
    /\ update.nonce = state.latestNonce + 1
    /\ update.payload # Malformed

ApplyFailed == [absent |-> "applied"]

applyUpdate(update, state) ==
    IF applyUpdateOk(update, state)
    THEN [state EXCEPT !.latestNonce = update.nonce, !.latestUpdate = update]
    ELSE ApplyFailed

\* storeService.saveChannelState(state): a failed save writes nothing.
saveChannelState(st, state) == [st EXCEPT ![state.channelAddress] = state]

----------------------------------------------------------------------------
(* Event buses: errorEvt and stateEvt of a node *)

\* The filter of the error subscription of generatePromise, for the update
\* its closure holds.
ErrorMatches(e, update) ==
    e.update.nonce = update.nonce
        /\ e.update.channelAddress = e.update.channelAddress

StateMatchesNextNonce(e, update) ==
    e.channelAddress = update.channelAddress
        /\ e.latestNonce = update.nonce + 1

StateMatchesNonceOnly(e, update) == e.latestNonce = update.nonce

\* The filter of the state subscription of generatePromise.
StateMatches(e, update) ==
    e.channelAddress = update.channelAddress /\ e.latestNonce = update.nonce

Matches(evt, e, update) ==
    IF evt = "error" THEN ErrorMatches(e, update) ELSE StateMatches(e, update)

\* A subscription: the handler attachOnce registered on bus evt in attempt
\* `attempt` of round `round` of the outbound call `id` proposing `update`.
Subscription(evt, update, id, round, attempt) ==
    [evt |-> evt, update |-> update, id |-> id, round |-> round,
     attempt |-> attempt]

Fired(n, evt, e) == {s \in subs[n] : s.evt = evt /\ Matches(evt, e, s.update)}

\* The promise of a call's current attempt is pending.
Pending(cl) == cl.pc \in {"waiting", "rejecting"}

\* A handler of the call's current attempt is among those fired.
Resolves(cl, fired) ==
    /\ Pending(cl)
    /\ \E s \in fired : /\ s.id = cl.id
                        /\ s.round = cl.round
                        /\ s.attempt = cl.attempt
                        /\ s.update = cl.update

\* evt.post(e) on node n: every attached handler whose filter accepts e
\* runs once and is detached; a handler of a pending attempt resolves it.
Post(n, evt, e) ==
    /\ subs' = [subs EXCEPT ![n] = @ \ Fired(n, evt, e)]
    /\ call' = [call EXCEPT ![n] =
                  [c \in Channels |->
                     IF Resolves(call[n][c], Fired(n, evt, e))
                     THEN [call[n][c] EXCEPT !.pc = "resolved", !.result = e]
                     ELSE call[n][c]]]

----------------------------------------------------------------------------
(* inbound and processChannelMessage *)

\* A handler slot no invocation has used.
IdleHandler == [pc |-> "idle"]

\* An invocation of inbound on message m: its position, its locals, how it
\* ended, and what it has done (store writes, messages sent, events posted).
NewHandler(m) ==
    [pc |-> "run", msg |-> m, read |-> NoState, storedState |-> NoState,
     previousState |-> NoState, response |-> NoState, error |-> NoError,
     signed |-> NoUpdate, outcome |-> "none", resynced |-> FALSE,
     writes |-> 0, sent |-> 0, posts |-> 0]

\* The empty channel state processChannelMessage creates for a setup update
\* of a channel it has no state of.
EmptyChannel(requestedUpdate, self) ==
    ChannelState(requestedUpdate.channelAddress,
                 <<requestedUpdate.counterpartyPublicIdentifier, self>>,
                 0, NoUpdate)

\* Both assertSignatures calls of the try block: reading .commitment of an
\* undefined latestUpdate throws inside the block as well.
SignaturesOk(requestedUpdate, counterpartyLatestUpdate) ==
    /\ assertSignatures(requestedUpdate.commitment)
    /\ counterpartyLatestUpdate # NoUpdate
    /\ assertSignatures(counterpartyLatestUpdate.commitment)

\* processChannelMessage from the store read to the application of the
\* requested update: the error it hands to handleError, or the response.
\* stored is what getChannelState returned.
Classify(m, stored, self) ==
    LET requestedUpdate == m.update
        counterpartyLatestUpdate == m.latestUpdate
        storedState == IF stored = NoState
                       THEN EmptyChannel(requestedUpdate, self)
                       ELSE stored
        diff == requestedUpdate.nonce - storedState.latestNonce
        synced == IF diff = 2 /\ counterpartyLatestUpdate # NoUpdate
                  THEN applyUpdate(counterpartyLatestUpdate, storedState)
                  ELSE storedState
        previousState == IF isChannelState(synced) THEN synced ELSE storedState
        response == applyUpdate(requestedUpdate, previousState)
        Err(reason, update, state) ==
            [error |-> ChannelUpdateError(reason, update, state),
             storedState |-> storedState, previousState |-> previousState,
             response |-> NoState, resynced |-> FALSE]
    IN  IF stored = NoState /\ requestedUpdate.type # "setup"
          THEN [Err("ChannelNotFound", requestedUpdate, stored)
                  EXCEPT !.storedState = NoState, !.previousState = NoState]
        ELSE IF ~SignaturesOk(requestedUpdate, counterpartyLatestUpdate)
          THEN Err("BadSignatures", requestedUpdate, storedState)
        ELSE IF diff <= 0
          THEN Err("StaleUpdateNonce", requestedUpdate, storedState)
        ELSE IF diff >= 3
          THEN Err("StaleChannelNonce", requestedUpdate, storedState)
        ELSE IF diff = 2 /\ counterpartyLatestUpdate = NoUpdate
          THEN Err("StaleChannelNonceNoUpdate", counterpartyLatestUpdate,
                   storedState)
        ELSE IF diff = 2 /\ ~isChannelState(synced)
          THEN Err("ApplyUpdateFailed", counterpartyLatestUpdate, storedState)
        ELSE IF ~isChannelState(response)
          THEN [Err("ApplyUpdateFailed", requestedUpdate, previousState)
                  EXCEPT !.resynced = (diff = 2)]
        ELSE [error |-> NoError, storedState |-> storedState,
              previousState |-> previousState, response |-> response,
              resynced |-> (diff = 2)]

ResyncStorePersists(st, previousState) == saveChannelState(st, previousState)

ResyncStoreIntermediate(st, previousState) ==
    [st EXCEPT ![previousState.channelAddress] = previousState]

\* What the resync step (diff = 2) leaves in the store: previousState lives
\* in memory only.
ResyncStore(st, previousState) == st

SingleSignedAlways(update) == TRUE

SingleSignedNever(update) == FALSE

SingleSigned(update) == Len(update.commitment.signatures) = 1

\* The handler slot s of node n can take a message.
Free(n, s) == hnd[n][s].pc \in {"idle", "ended"}

Ended(h, outcome) == [h EXCEPT !.pc = "ended", !.outcome = outcome]

\* inbound: a message from ourselves is ignored.
InboundIgnore(n, s, m) ==
    /\ Free(n, s) /\ m \in net /\ m.to = n
    /\ m.from = n
    /\ net' = net \ {m}
    /\ hnd' = [hnd EXCEPT ![n][s] =
                 Ended(NewHandler(m), "returned")]
    /\ UNCHANGED <<store, call, subs>>

\* inbound: an error message from the counterparty is posted to errorEvt.
InboundError(n, s, m) ==
    /\ Free(n, s) /\ m \in net /\ m.to = n
    /\ m.from # n /\ ~isChannelMessage(m)
    /\ net' = net \ {m}
    /\ hnd' = [hnd EXCEPT ![n][s] =
                 Ended([NewHandler(m) EXCEPT !.posts = 1], "returned")]
    /\ Post(n, "error", m.error)
    /\ UNCHANGED store

\* inbound -> processChannelMessage: read the store, verify, classify by
\* nonce, resync in memory, apply the requested update.
ProcessChannelMessage(n, s, m) ==
    /\ Free(n, s) /\ m \in net /\ m.to = n
    /\ m.from # n /\ isChannelMessage(m)
    /\ net' = net \ {m}
    /\ LET c == m.update.channelAddress
           r == Classify(m, store[n][c], n)
       IN  /\ hnd' = [hnd EXCEPT ![n][s] =
                 [NewHandler(m) EXCEPT
                    !.read = store[n][c],
                    !.storedState = r.storedState,
                    !.previousState = r.previousState,
                    !.response = r.response,
                    !.error = r.error,
                    !.resynced = r.resynced,
                    !.pc = IF r.error = NoError THEN "save"
                           ELSE IF SingleSigned(m.update) THEN "errsend"
                           ELSE "errpost"]]
           /\ store' = [store EXCEPT ![n] =
                          IF r.resynced
                          THEN ResyncStore(@, r.previousState)
                          ELSE @]
    /\ UNCHANGED <<call, subs>>

ProposalStateCountersigned(response, signed) ==
    [response EXCEPT !.latestUpdate.commitment = signed]

\* The state the proposal branch hands to saveChannelState: response, which
\* applyUpdate built from the requested update before it was countersigned.
ProposalStateToSave(response, signed) == response

\* The countersign-and-save step of a proposal, and the save step of an ack.
\* ok: signMessage and saveChannelState both succeed.
InboundSave(n, s, ok) ==
    LET h == hnd[n][s]
        requestedUpdate == h.msg.update
        signed == addSignature(requestedUpdate.commitment, n)
        saved == IF SingleSigned(requestedUpdate)
                 THEN ProposalStateToSave(h.response, signed)
                 ELSE h.response
    IN  /\ h.pc = "save"
        /\ IF ok
           THEN /\ store' = [store EXCEPT ![n] = saveChannelState(@, saved)]
                /\ hnd' = [hnd EXCEPT ![n][s] =
                     [h EXCEPT !.writes = @ + 1,
                               !.signed = IF SingleSigned(requestedUpdate)
                                          THEN signed ELSE NoUpdate,
                               !.pc = IF SingleSigned(requestedUpdate)
                                      THEN "reply" ELSE "post"]]
           ELSE /\ store' = store
                /\ hnd' = [hnd EXCEPT ![n][s] =
                     [h EXCEPT !.error = ChannelUpdateError("SaveChannelFailed",
                                            requestedUpdate, h.previousState),
                               !.pc = IF SingleSigned(requestedUpdate)
                                      THEN "errsend" ELSE "errpost"]]
        /\ UNCHANGED <<net, call, subs>>

\* The reply the proposal branch sends.
Reply(n, h) ==
    ChannelMessage(h.msg.from, n,
                   [h.msg.update EXCEPT !.commitment = h.signed],
                   h.response.latestUpdate)

\* messagingService.send of the ack; a send that throws ends the handler
\* with the transport's error.
InboundReply(n, s, ok) ==
    LET h == hnd[n][s]
    IN  /\ h.pc = "reply"
        /\ IF ok
           THEN /\ net' = net \cup {Reply(n, h)}
                /\ hnd' = [hnd EXCEPT ![n][s] =
                             Ended([h EXCEPT !.sent = @ + 1], "returned")]
           ELSE /\ net' = net
                /\ hnd' = [hnd EXCEPT ![n][s] = Ended(h, "transport")]
        /\ UNCHANGED <<store, call, subs>>

\* stateEvt.post(response) after the save of an ack.
InboundPost(n, s) ==
    LET h == hnd[n][s]
    IN  /\ h.pc = "post"
        /\ hnd' = [hnd EXCEPT ![n][s] =
                     Ended([h EXCEPT !.posts = @ + 1], "returned")]
        /\ Post(n, "state", h.response)
        /\ UNCHANGED <<store, net>>

\* handleError on a single-signed update: send the error to the sender.
HandleErrorSend(n, s, ok) ==
    LET h == hnd[n][s]
    IN  /\ h.pc = "errsend"
        /\ IF ok
           THEN /\ net' = net \cup {ErrorMessage(h.msg.from, n, h.error)}
                /\ hnd' = [hnd EXCEPT ![n][s] =
                             [h EXCEPT !.sent = @ + 1, !.pc = "errpost"]]
           ELSE /\ net' = net
                /\ hnd' = [hnd EXCEPT ![n][s] = Ended(h, "transport")]
        /\ UNCHANGED <<store, call, subs>>

\* handleError: errorEvt.post(error); throw error.
HandleErrorPost(n, s) ==
    LET h == hnd[n][s]
    IN  /\ h.pc = "errpost"
        /\ hnd' = [hnd EXCEPT ![n][s] =
                     Ended([h EXCEPT !.posts = @ + 1], "rejected")]
        /\ Post(n, "error", h.error)
        /\ UNCHANGED <<store, net>>

----------------------------------------------------------------------------
(* outbound *)

\* Array(5): the send attempts of one sendWithRetry round.
MaxAttempts == 5

\* No call of outbound yet on a channel of a node.
IdleCall == [pc |-> "idle", id |-> 0]

\* The id-th call of outbound on a channel of a node: its position, its
\* locals, and what it has done (store writes, sends, rejected sends of the
\* round).
NewCall(id, update, storedChannel) ==
    [pc |-> "send", id |-> id, update |-> update,
     storedChannel |-> storedChannel, round |-> 1, attempt |-> 0,
     result |-> NoState, newState |-> NoState, error |-> NoError,
     writes |-> 0, sends |-> 0, rejects |-> 0]

\* No outbound call runs on channel c of node n.
Callable(n, c) == call[n][c].pc \in {"idle", "done", "failed"}

Failed(cl, reason, update, state) ==
    [cl EXCEPT !.pc = "failed",
               !.error = ChannelUpdateError(reason, update, state)]

\* outbound(update, ...): read the stored channel; ChannelNotFound without.
Outbound(n, update) ==
    LET c == update.channelAddress
        storedChannel == store[n][c]
        cl == NewCall(call[n][c].id + 1, update, storedChannel)
    IN  /\ Callable(n, c)
        /\ call' = [call EXCEPT ![n][c] =
                      IF storedChannel = NoState
                      THEN Failed(cl, "ChannelNotFound", update, storedChannel)
                      ELSE cl]
        /\ UNCHANGED <<store, net, hnd, subs>>

\* generatePromise: attach the two one-shot handlers and send the update
\* with the latestUpdate of the state read at the start of the call.
\* ok: messagingService.send succeeds.
GeneratePromise(n, c, ok) ==
    LET cl == call[n][c]
        a == cl.attempt + 1
    IN  /\ cl.pc = "send"
        /\ subs' = [subs EXCEPT ![n] = @ \cup
                      {Subscription("error", cl.update, cl.id, cl.round, a),
                       Subscription("state", cl.update, cl.id, cl.round, a)}]
        /\ IF ok
           THEN /\ net' = net \cup
                      {ChannelMessage(cl.update.counterpartyPublicIdentifier, n,
                                      cl.update, cl.storedChannel.latestUpdate)}
                /\ call' = [call EXCEPT ![n][c] =
                              [cl EXCEPT !.attempt = a, !.sends = @ + 1,
                                         !.pc = "waiting"]]
           ELSE /\ net' = net
                /\ call' = [call EXCEPT ![n][c] =
                              [cl EXCEPT !.attempt = a, !.sends = @ + 1,
                                         !.pc = "rejecting"]]
        /\ UNCHANGED <<store, hnd>>

RetriesExhaustedOneLate(attempt) == attempt > MaxAttempts

\* The for loop of sendWithRetry has run out of attempts.
RetriesExhausted(attempt) == attempt >= MaxAttempts

\* sendWithRetry: the send failed and rejected the attempt; wait and try
\* again, or throw MessageFailed after the last attempt.
SendRejected(n, c) ==
    LET cl == call[n][c]
    IN  /\ cl.pc = "rejecting"
        /\ call' = [call EXCEPT ![n][c] =
                      IF RetriesExhausted(cl.attempt)
                      THEN Failed([cl EXCEPT !.rejects = @ + 1],
                                  "MessageFailed", cl.update, cl.storedChannel)
                      ELSE [cl EXCEPT !.pc = "send", !.rejects = @ + 1]]
        /\ UNCHANGED <<store, net, hnd, subs>>

FirstResultNoNonceCheck(cl) ==
    LET result == cl.result
        update == cl.update
        storedChannel == cl.storedChannel
        newState == applyUpdate(result.state.latestUpdate, storedChannel)
    IN  IF isChannelState(result)
          THEN [cl EXCEPT !.pc = "done"]
        ELSE IF result.message # "StaleUpdateNonce"
          THEN Failed(cl, result.message, update, storedChannel)
        ELSE IF result.state.latestUpdate = NoUpdate
          THEN Failed(cl, "StaleChannelNonceNoUpdate", update, storedChannel)
        ELSE IF ~isChannelState(newState)
          THEN Failed(cl, "ApplyUpdateFailed", result.state.latestUpdate,
                      storedChannel)
        ELSE [cl EXCEPT !.pc = "save", !.newState = newState]

\* outbound after the first sendWithRetry resolved: return the state, or
\* fail, or (StaleUpdateNonce with the counterparty's update at our nonce)
\* apply the counterparty's latest update to the state read at the start.
FirstResult(cl) ==
    LET result == cl.result
        update == cl.update
        storedChannel == cl.storedChannel
        newState == applyUpdate(result.state.latestUpdate, storedChannel)
    IN  IF isChannelState(result)
          THEN [cl EXCEPT !.pc = "done"]
        ELSE IF result.message # "StaleUpdateNonce"
          THEN Failed(cl, result.message, update, storedChannel)
        ELSE IF result.state.latestUpdate = NoUpdate
          THEN Failed(cl, "StaleChannelNonceNoUpdate", update, storedChannel)
        ELSE IF result.state.latestUpdate.nonce # update.nonce
          THEN Failed(cl, "StaleChannelNonce", update, storedChannel)
        ELSE IF ~isChannelState(newState)
          THEN Failed(cl, "ApplyUpdateFailed", result.state.latestUpdate,
                      storedChannel)
        ELSE [cl EXCEPT !.pc = "save", !.newState = newState]

\* outbound after the second sendWithRetry resolved: return or fail.
SecondResult(cl) ==
    IF isChannelState(cl.result)
    THEN [cl EXCEPT !.pc = "done"]
    ELSE Failed(cl, cl.result.message, cl.update, cl.newState)

OutboundResult(n, c) ==
    LET cl == call[n][c]
    IN  /\ cl.pc = "resolved"
        /\ call' = [call EXCEPT ![n][c] =
                      IF cl.round = 1 THEN FirstResult(cl)
                                      ELSE SecondResult(cl)]
        /\ UNCHANGED <<store, net, hnd, subs>>

RetryUpdateNextNonce(cl) == [cl.update EXCEPT !.nonce = @ + 1]

\* The update the second round sends: generatePromise closes over the
\* update outbound was called with.
RetryUpdate(cl) == cl.update

\* Save the resynced state, then run sendWithRetry once more.
OutboundSave(n, c, ok) ==
    LET cl == call[n][c]
    IN  /\ cl.pc = "save"
        /\ IF ok
           THEN /\ store' = [store EXCEPT ![n] =
                               saveChannelState(@, cl.newState)]
                /\ call' = [call EXCEPT ![n][c] =
                              [cl EXCEPT !.pc = "send", !.round = 2,
                                         !.attempt = 0, !.rejects = 0,
                                         !.writes = @ + 1,
                                         !.update = RetryUpdate(cl)]]
           ELSE /\ store' = store
                /\ call' = [call EXCEPT ![n][c] =
                              Failed(cl, "SaveChannelFailed",
                                     cl.result.state.latestUpdate,
                                     cl.storedChannel)]
        /\ UNCHANGED <<net, hnd, subs>>

----------------------------------------------------------------------------
(* SpecInbound: one invocation of inbound on node B, on every message of a *)
(* bounded set, against every store of a bounded set.                      *)

TypeAt(k) == IF k = 1 THEN "setup" ELSE "update"

\* The counterparty of the proposer, who signs first.
CounterpartyOf(sigs) == IF sigs[1] = "B" THEN "A" ELSE "B"

\* The updates a node may hold as latestUpdate at nonce k: proposed by A and
\* saved by B as received, or dual-signed.
StoredUpdates(k) ==
    {ChannelUpdate("c1", k, TypeAt(k), p, CounterpartyOf(sigs), sigs) :
        p \in Payloads, sigs \in {<<"A">>, <<"A", "B">>, <<"B", "A">>}}

StoredStates ==
    {NoState, ChannelState("c1", <<"A", "B">>, 0, NoUpdate)}
        \cup {ChannelState("c1", <<"A", "B">>, u.nonce, u) :
                 u \in UNION {StoredUpdates(k) : k \in 1..MaxStoredNonce}}

RequestedUpdates ==
    {ChannelUpdate("c1", n, t, p, CounterpartyOf(sigs), sigs) :
        n \in 1..(MaxStoredNonce + 3), t \in {"setup", "update"},
        p \in {"p1", Malformed},
        sigs \in {<<"A">>, <<Forged>>, <<"B", "A">>, <<"B", Forged>>}}

LatestUpdates ==
    {NoUpdate}
        \cup UNION {StoredUpdates(k) : k \in 1..(MaxStoredNonce + 1)}
        \cup {ChannelUpdate("c1", k, TypeAt(k), p, "B", sigs) :
                 k \in 1..(MaxStoredNonce + 1),
                 p \in {"p1", Malformed}, sigs \in {<<"A", Forged>>, <<"A", "B">>}}

InboundMessages ==
    {ChannelMessage("B", "A", u, l) : u \in RequestedUpdates, l \in LatestUpdates}
        \cup {ChannelMessage("B", "B", u, NoUpdate) :
                 u \in {ChannelUpdate("c1", 1, "setup", "p1", "A", <<"B">>)}}
        \cup {ErrorMessage("B", "A",
                   ChannelUpdateError("BadSignatures", u,
                       ChannelState("c1", <<"A", "B">>, 0, NoUpdate))) :
                 u \in {ChannelUpdate("c1", 1, "setup", "p1", "A", <<"B">>)}}

\* Node B holds S and is sent m; node A holds nothing of the channel, or
\* has stored applyUpdate(m.update, S).
InitInbound ==
    /\ \E S \in StoredStates, m \in InboundMessages :
          /\ net = {m}
          /\ \E T \in {NoState} \cup
                      (IF isChannelMessage(m) /\ S # NoState
                       THEN {applyUpdate(m.update, S)} \ {ApplyFailed}
                       ELSE {}) :
                store = [n \in Nodes |-> [c \in Channels |->
                           IF c # "c1" THEN NoState
                           ELSE IF n = "B" THEN S ELSE T]]
    /\ hnd = [n \in Nodes |-> [s \in Slots |-> IdleHandler]]
    /\ call = [n \in Nodes |-> [c \in Channels |-> IdleCall]]
    /\ subs = [n \in Nodes |-> {}]

NextInbound ==
    \/ \E m \in net : InboundIgnore("B", "h1", m)
    \/ \E m \in net : InboundError("B", "h1", m)
    \/ \E m \in net : ProcessChannelMessage("B", "h1", m)
    \/ \E ok \in BOOLEAN : InboundSave("B", "h1", ok)
    \/ \E ok \in BOOLEAN : InboundReply("B", "h1", ok)
    \/ InboundPost("B", "h1")
    \/ \E ok \in BOOLEAN : HandleErrorSend("B", "h1", ok)
    \/ HandleErrorPost("B", "h1")

SpecInbound == InitInbound /\ [][NextInbound]_vars

----------------------------------------------------------------------------
(* The two-node specifications *)

\* The update a caller proposes on top of the state its store holds.
ProposedUpdate(n, c, p) ==
    ChannelUpdate(c, store[n][c].latestNonce + 1, "update", p, Peer(n), <<n>>)

\* A caller's call of outbound: at most max per node and channel.
Propose(n, c, p, max) ==
    /\ store[n][c] # NoState
    /\ call[n][c].id < max
    /\ Outbound(n, ProposedUpdate(n, c, p))

\* The state both nodes hold after the channel's setup.
SetupState(c) ==
    ChannelState(c, <<"A", "B">>, 1,
                 ChannelUpdate(c, 1, "setup", "p1", "B", <<"A", "B">>))

InitIdle ==
    /\ net = {}
    /\ hnd = [n \in Nodes |-> [s \in Slots |-> IdleHandler]]
    /\ call = [n \in Nodes |-> [c \in Channels |-> IdleCall]]
    /\ subs = [n \in Nodes |-> {}]

(* SpecSync: both nodes propose on channel c1 over a transport and a store *)
(* that do not fail.                                                       *)

InitSync ==
    /\ store = [n \in Nodes |-> [c \in Channels |->
                   IF c = "c1" THEN SetupState(c) ELSE NoState]]
    /\ InitIdle

NextSync ==
    \E n \in Nodes :
        \/ \E p \in Payloads : Propose(n, "c1", p, MaxSyncCalls)
        \/ GeneratePromise(n, "c1", TRUE)
        \/ OutboundResult(n, "c1")
        \/ OutboundSave(n, "c1", TRUE)
        \/ \E m \in net : InboundError(n, "h1", m)
        \/ \E m \in net : ProcessChannelMessage(n, "h1", m)
        \/ InboundSave(n, "h1", TRUE)
        \/ InboundReply(n, "h1", TRUE)
        \/ InboundPost(n, "h1")
        \/ HandleErrorSend(n, "h1", TRUE)
        \/ HandleErrorPost(n, "h1")

SpecSync == InitSync /\ [][NextSync]_vars

(* SpecCritical: SpecSync with two invocations of inbound at a time on a   *)
(* node: a second message is taken up while the handler of the first is    *)
(* suspended at an await.                                                  *)

NextCritical ==
    \E n \in Nodes :
        \/ \E p \in Payloads : Propose(n, "c1", p, MaxSyncCalls)
        \/ GeneratePromise(n, "c1", TRUE)
        \/ OutboundResult(n, "c1")
        \/ OutboundSave(n, "c1", TRUE)
        \/ \E s \in Slots :
            \/ \E m \in net : InboundError(n, s, m)
            \/ \E m \in net : ProcessChannelMessage(n, s, m)
            \/ InboundSave(n, s, TRUE)
            \/ InboundReply(n, s, TRUE)
            \/ InboundPost(n, s)
            \/ HandleErrorSend(n, s, TRUE)
            \/ HandleErrorPost(n, s)

SpecCritical == InitSync /\ [][NextCritical]_vars

(* SpecRetry: node A proposes on channel c1 and node B answers; every send *)
(* and every save may fail.                                                *)

NextRetry ==
    \/ \E p \in Payloads \cup {Malformed} : Propose("A", "c1", p, MaxCalls)
    \/ \E ok \in BOOLEAN : GeneratePromise("A", "c1", ok)
    \/ SendRejected("A", "c1")
    \/ OutboundResult("A", "c1")
    \/ \E ok \in BOOLEAN : OutboundSave("A", "c1", ok)
    \/ \E n \in Nodes :
        \/ \E m \in net : InboundError(n, "h1", m)
        \/ \E m \in net : ProcessChannelMessage(n, "h1", m)
        \/ \E ok \in BOOLEAN : InboundSave(n, "h1", ok)
        \/ \E ok \in BOOLEAN : InboundReply(n, "h1", ok)
        \/ InboundPost(n, "h1")
        \/ \E ok \in BOOLEAN : HandleErrorSend(n, "h1", ok)
        \/ HandleErrorPost(n, "h1")

SpecRetry == InitSync /\ [][NextRetry]_vars

(* SpecLossy: SpecRetry in which every step that can be taken is taken     *)
(* eventually: the event loop runs every continuation that is ready, and   *)
(* the transport and the store answer every request, with success or with  *)
(* failure.                                                                *)

SpecLossy == InitSync /\ [][NextRetry]_vars /\ WF_vars(NextRetry)

(* SpecResult: node A's outbound call has sent its update and an error     *)
(* message of the counterparty is in flight, for every error of a bounded  *)
(* set; the counterparty does not answer the second round.                 *)

ErrorReasons == {"StaleUpdateNonce", "StaleChannelNonce", "BadSignatures"}

InitResult ==
    /\ \E S \in StoredStates \ {NoState}, T \in StoredStates \ {NoState},
          reason \in ErrorReasons :
          LET update == ChannelUpdate("c1", S.latestNonce + 1, "update", "p1",
                                      "B", <<"A">>)
          IN  /\ S.latestNonce >= 1
              /\ store = [n \in Nodes |-> [c \in Channels |->
                            IF c # "c1" THEN NoState
                            ELSE IF n = "A" THEN S ELSE T]]
              /\ net = {ErrorMessage("A", "B",
                            ChannelUpdateError(reason, update, T))}
              /\ call = [n \in Nodes |-> [c \in Channels |->
                            IF n = "A" /\ c = "c1"
                            THEN [NewCall(1, update, S) EXCEPT
                                    !.pc = "waiting", !.attempt = 1,
                                    !.sends = 1]
                            ELSE IdleCall]]
              /\ subs = [n \in Nodes |->
                            IF n = "A"
                            THEN {Subscription("error", update, 1, 1, 1),
                                  Subscription("state", update, 1, 1, 1)}
                            ELSE {}]
    /\ hnd = [n \in Nodes |-> [s \in Slots |-> IdleHandler]]

NextResult ==
    \/ \E m \in net : InboundError("A", "h1", m)
    \/ OutboundResult("A", "c1")
    \/ \E ok \in BOOLEAN : OutboundSave("A", "c1", ok)
    \/ \E ok \in BOOLEAN : GeneratePromise("A", "c1", ok)
    \/ SendRejected("A", "c1")

SpecResult == InitResult /\ [][NextResult]_vars

(* SpecChannels: node A proposes on the channels c1 and c2 at once and     *)
(* node B answers, over a transport and a store that do not fail.          *)

InitChannels ==
    /\ store = [n \in Nodes |-> [c \in Channels |-> SetupState(c)]]
    /\ InitIdle

NextChannels ==
    \/ \E c \in Channels :
        \/ \E p \in {"p1", Malformed} : Propose("A", c, p, MaxSyncCalls)
        \/ GeneratePromise("A", c, TRUE)
        \/ OutboundResult("A", c)
    \/ \E n \in Nodes :
        \/ \E m \in net : InboundError(n, "h1", m)
        \/ \E m \in net : ProcessChannelMessage(n, "h1", m)
        \/ InboundSave(n, "h1", TRUE)
        \/ InboundReply(n, "h1", TRUE)
        \/ InboundPost(n, "h1")
        \/ HandleErrorSend(n, "h1", TRUE)
        \/ HandleErrorPost(n, "h1")

SpecChannels == InitChannels /\ [][NextChannels]_vars

(* SpecLive: one outbound call on channel c1, from stores that agree or    *)
(* with node B one update ahead, over a transport and a store that do not  *)
(* fail; every step that can be taken is taken eventually.                 *)

NoUpdateInFlight ==
    /\ net = {}
    /\ \A n \in Nodes : /\ call[n]["c1"].pc = "idle"
                        /\ hnd[n]["h1"].pc = "idle"

InitLive ==
    /\ \E S \in StoredStates \ {NoState} :
          /\ S.latestNonce >= 1
          /\ \E T \in {S} \cup {applyUpdate(u, S) :
                                  u \in StoredUpdates(S.latestNonce + 1)} :
                store = [n \in Nodes |-> [c \in Channels |->
                           IF c # "c1" THEN NoState
                           ELSE IF n = "A" THEN S ELSE T]]
    /\ InitIdle

NextLive ==
    \E n \in Nodes :
        \/ NoUpdateInFlight /\ Propose(n, "c1", "p1", MaxSyncCalls)
        \/ GeneratePromise(n, "c1", TRUE)
        \/ OutboundResult(n, "c1")
        \/ OutboundSave(n, "c1", TRUE)
        \/ \E m \in net : InboundError(n, "h1", m)
        \/ \E m \in net : ProcessChannelMessage(n, "h1", m)
        \/ InboundSave(n, "h1", TRUE)
        \/ InboundReply(n, "h1", TRUE)
        \/ InboundPost(n, "h1")
        \/ HandleErrorSend(n, "h1", TRUE)
        \/ HandleErrorPost(n, "h1")

SpecLive == InitLive /\ [][NextLive]_vars /\ WF_vars(NextLive)

(* SpecAhead: SpecSync from the stores of SpecLive: the stores agree, or   *)
(* node B is one update ahead of node A; each node makes at most           *)
(* MaxSyncCalls outbound calls on the channel, one at a time.              *)

SpecAhead == InitLive /\ [][NextSync]_vars

----------------------------------------------------------------------------
(* Claims *)

\* The invocation of inbound on node B in SpecInbound.
H == hnd["B"]["h1"]

\* It was given a channel message of the counterparty and has ended.
HandledChannelMessage ==
    H.pc = "ended" /\ isChannelMessage(H.msg) /\ H.msg.from # "B"

CallA == call["A"]["c1"]

\* C1: when both stores hold the same state at nonce k >= 1, nothing else is
\* in flight and no send or save fails, an outbound call proposing a valid
\* single-signed update of nonce k+1 eventually returns a state with
\* latestNonce k+1, with both stores at nonce k+1.
C1_HappyPathReturns ==
    \A n \in Nodes, k \in 1..MaxStoredNonce :
        (/\ call[n]["c1"].pc = "send" /\ call[n]["c1"].round = 1
         /\ call[n]["c1"].attempt = 0
         /\ store["A"]["c1"] = store["B"]["c1"]
         /\ store[n]["c1"].latestNonce = k
         /\ call[n]["c1"].update.nonce = k + 1
         /\ SingleSigned(call[n]["c1"].update))
        ~> (/\ call[n]["c1"].pc = "done"
            /\ isChannelState(call[n]["c1"].result)
            /\ call[n]["c1"].result.latestNonce = k + 1
            /\ store["A"]["c1"].latestNonce = k + 1
            /\ store["B"]["c1"].latestNonce = k + 1)

\* A call that started from agreeing stores has returned the state of the
\* next nonce without a resync.
C1_Witness ==
    \E n \in Nodes :
        /\ call[n]["c1"].pc = "done" /\ call[n]["c1"].writes = 0
        /\ call[n]["c1"].result.latestNonce
              = call[n]["c1"].storedChannel.latestNonce + 1
        /\ store[Peer(n)]["c1"].latestNonce = call[n]["c1"].result.latestNonce

\* C2: an invocation that acks a single-signed update of nonce k+1 against a
\* store at nonce k leaves a stored state of nonce k+1 whose latestUpdate
\* commitment carries two signatures, and has sent one reply whose update
\* carries two signatures.
C2_ProposalPersistedDualSigned ==
    (/\ HandledChannelMessage /\ H.outcome = "returned"
     /\ H.read # NoState /\ SingleSigned(H.msg.update)
     /\ H.msg.update.nonce = H.read.latestNonce + 1)
    => /\ store["B"]["c1"].latestNonce = H.read.latestNonce + 1
       /\ Len(store["B"]["c1"].latestUpdate.commitment.signatures) = 2
       /\ H.sent = 1
       /\ \A m \in net : Len(m.update.commitment.signatures) = 2

\* C3: an invocation on a correctly signed message whose requested nonce is
\* at most the stored latestNonce ends with error StaleUpdateNonce and has
\* written nothing to the store.
C3_StaleReplayRejected ==
    (/\ HandledChannelMessage /\ H.read # NoState
     /\ SignaturesOk(H.msg.update, H.msg.latestUpdate)
     /\ H.msg.update.nonce <= H.read.latestNonce)
    => /\ H.outcome = "rejected"
       /\ H.error.message = "StaleUpdateNonce"
       /\ H.writes = 0
       /\ store["B"]["c1"] = H.read

\* C4: an invocation on an error path, whatever the ChannelUpdateError, has
\* written nothing: the store holds what the invocation read, also after a
\* resync step in memory followed by a failed application.
C4_RejectedLeavesStore ==
    (H.pc \in {"errsend", "errpost", "ended"} /\ H.error # NoError)
    => /\ H.writes = 0
       /\ store["B"]["c1"] = H.read

\* The requested update failed to apply after a resync step that succeeded.
C4_Witness ==
    /\ H.pc = "ended" /\ H.outcome = "rejected"
    /\ H.error.message = "ApplyUpdateFailed" /\ H.resynced
    /\ store["B"]["c1"] = H.read

\* C6: an invocation on a message in which a commitment carries a signature
\* that does not verify raises BadSignatures, whatever the store holds.
C6_BadSignatureRaisesBadSignatures ==
    (/\ HandledChannelMessage
     /\ \/ ~assertSignatures(H.msg.update.commitment)
        \/ /\ H.msg.latestUpdate # NoUpdate
           /\ ~assertSignatures(H.msg.latestUpdate.commitment))
    => H.error.message = "BadSignatures"

C5_ResyncedCallSucceeds ==
    \A n \in Nodes :
        (call[n]["c1"].pc \in {"done", "failed"} /\ call[n]["c1"].round = 2)
        => /\ call[n]["c1"].pc = "done"
           /\ call[n]["c1"].update.nonce
                 = call[n]["c1"].storedChannel.latestNonce + 2

\* C7: whenever the two stores hold states of the same latestNonce for the
\* channel, the states have the same latestUpdate payload.
C7_SameNonceSamePayload ==
    (store["A"]["c1"].latestNonce = store["B"]["c1"].latestNonce)
    => store["A"]["c1"].latestUpdate.payload
         = store["B"]["c1"].latestUpdate.payload

\* C9: an outbound attempt resolved by an error was resolved by an error
\* whose update has the nonce and the channelAddress of the update proposed.
C9_ErrorOfOwnChannel ==
    \A c \in Channels :
        (call["A"][c].pc = "resolved" /\ ~isChannelState(call["A"][c].result))
        => /\ call["A"][c].result.update.nonce = call["A"][c].update.nonce
           /\ call["A"][c].result.update.channelAddress
                 = call["A"][c].update.channelAddress

\* C10: in a round every send attempt but the first follows a send failure
\* of the one before, there are at most 5, an attempt that resolved is not
\* retried, and the call fails with MessageFailed exactly after 5 failed
\* sends, the round having written nothing to the store.
C10_RetryBudget ==
    CallA.pc # "idle" =>
    /\ CallA.attempt <= MaxAttempts
    /\ CallA.pc = "send" => CallA.attempt = CallA.rejects
    /\ CallA.pc \in {"waiting", "rejecting", "resolved", "save", "done"}
         => CallA.attempt = CallA.rejects + 1
    /\ CallA.pc = "failed"
         => IF CallA.error.message = "MessageFailed"
            THEN /\ CallA.attempt = MaxAttempts
                 /\ CallA.rejects = MaxAttempts
                 /\ CallA.writes = CallA.round - 1
            ELSE CallA.attempt = CallA.rejects + 1
    /\ CallA.writes = (IF CallA.round = 2 THEN 1 ELSE 0)

\* All 5 sends of a round failed and the call failed with MessageFailed.
C10_Witness ==
    /\ CallA.pc = "failed" /\ CallA.error.message = "MessageFailed"
    /\ CallA.sends >= MaxAttempts

\* C11: a state outbound returns has the channelAddress of the proposed
\* update and latestNonce equal to its nonce, and the store of the node held
\* it already when it was published on stateEvt and resolved the attempt.
C11_ReturnsPersistedState ==
    /\ [](\A n \in Nodes, c \in Channels :
            (call[n][c].pc = "done")
            => /\ isChannelState(call[n][c].result)
               /\ call[n][c].result.channelAddress
                     = call[n][c].update.channelAddress
               /\ call[n][c].result.latestNonce = call[n][c].update.nonce)
    /\ [][\A n \in Nodes, c \in Channels :
            (/\ call[n][c].pc = "waiting"
             /\ call'[n][c].pc = "resolved"
             /\ isChannelState(call'[n][c].result))
            => store[n][call'[n][c].result.channelAddress]
                  = call'[n][c].result]_vars

\* Both calls of node A have returned the states its store holds.
C11_Witness ==
    \A c \in Channels :
        /\ call["A"][c].pc = "done"
        /\ call["A"][c].result = store["A"][c]
        /\ call["A"][c].result.latestNonce = call["A"][c].update.nonce

\* C12: an invocation on a correctly signed single-signed setup update of
\* nonce 1, with no latestUpdate in the message and no stored state of the
\* channel, proceeds from the synthesized state (latestNonce 0, no
\* latestUpdate, participants counterparty then self) and, no save and no
\* send having failed, persists a state of nonce 1 without raising an error.
C12_FirstSetupPersists ==
    (/\ HandledChannelMessage /\ H.read = NoState
     /\ H.outcome # "transport"
     /\ H.msg.update.type = "setup" /\ H.msg.update.nonce = 1
     /\ SingleSigned(H.msg.update)
     /\ assertSignatures(H.msg.update.commitment)
     /\ H.msg.update.payload # Malformed
     /\ H.msg.latestUpdate = NoUpdate
     /\ ~(H.error # NoError /\ H.error.message = "SaveChannelFailed"))
    => /\ H.error = NoError
       /\ H.storedState
             = ChannelState("c1", <<H.msg.from, "B">>, 0, NoUpdate)
       /\ store["B"]["c1"] # NoState
       /\ store["B"]["c1"].latestNonce = 1

\* C17: an invocation on a correctly signed update of nonce k+2 (k the
\* stored latestNonce) with no latestUpdate in the message raises
\* StaleChannelNonceNoUpdate.
C17_NoRecoveryMaterial ==
    (/\ HandledChannelMessage /\ H.read # NoState
     /\ H.msg.update.nonce = H.read.latestNonce + 2
     /\ assertSignatures(H.msg.update.commitment)
     /\ H.msg.latestUpdate = NoUpdate)
    => H.error.message = "StaleChannelNonceNoUpdate"

\* C13: two invocations of inbound on one node that read the same stored
\* state of the channel never both persist a state of the same nonce.
C13_InboundCriticalSection ==
    \A n \in Nodes :
        LET h1 == hnd[n]["h1"]
            h2 == hnd[n]["h2"]
        IN  ~(/\ h1.pc # "idle" /\ h2.pc # "idle"
              /\ isChannelMessage(h1.msg) /\ isChannelMessage(h2.msg)
              /\ h1.read = h2.read
              /\ h1.writes = 1 /\ h2.writes = 1
              /\ h1.response.latestNonce = h2.response.latestNonce)

\* C14: every outbound call eventually returns a state or fails with a
\* ChannelUpdateError, also when a send of the counterparty's answer fails
\* and no matching state or error is ever published.
C14_OutboundTerminates ==
    (CallA.pc = "send") ~> (CallA.pc \in {"done", "failed"})

\* C15: an outbound call writes the store at most once, runs at most two
\* rounds and sends at most 10 times; its second round sends the update the
\* call was given, and what resolves the second round is the call's result:
\* a state is returned, an error (StaleUpdateNonce included) fails the call
\* with that error, and there is no second resync.
C15_AtMostOneResync ==
    CallA.pc # "idle" =>
    /\ CallA.writes <= 1
    /\ CallA.round \in {1, 2}
    /\ CallA.sends <= 2 * MaxAttempts
    /\ CallA.update.nonce = CallA.storedChannel.latestNonce + 1
    /\ CallA.pc = "save" => CallA.round = 1 /\ CallA.writes = 0
    /\ CallA.round = 2 => CallA.writes = 1
    /\ (CallA.round = 2 /\ CallA.pc = "done") => isChannelState(CallA.result)
    /\ (/\ CallA.round = 2 /\ CallA.pc = "failed"
        /\ CallA.error.message # "MessageFailed")
         => /\ ~isChannelState(CallA.result)
            /\ CallA.error.message = CallA.result.message

\* The second round was answered with StaleUpdateNonce again and the call
\* failed with it, after its one store write.
C15_Witness ==
    /\ CallA.pc = "failed" /\ CallA.round = 2 /\ CallA.writes = 1
    /\ CallA.error.message = "StaleUpdateNonce"
    /\ CallA.update.nonce = CallA.storedChannel.latestNonce + 1

\* C16: when the first round of an outbound call resolves with
\* StaleUpdateNonce, the call fails with StaleChannelNonceNoUpdate if the
\* error's state has no latestUpdate and with StaleChannelNonce if it has
\* one of another nonce than the proposed update's; the call has then
\* written nothing to the store and sent nothing more.
C16_StaleErrorClassified ==
    LET result == CallA.result
        Stale == /\ CallA.round = 1 /\ result # NoState
                 /\ ~isChannelState(result)
                 /\ result.message = "StaleUpdateNonce"
        Untouched == /\ CallA.writes = 0 /\ CallA.sends = 1
                     /\ store["A"]["c1"] = CallA.storedChannel
                     /\ \A m \in net : m.from # "A"
    IN  /\ (CallA.pc \in {"save", "failed"} /\ Stale
            /\ result.state.latestUpdate = NoUpdate)
             => /\ CallA.pc = "failed"
                /\ CallA.error.message = "StaleChannelNonceNoUpdate"
                /\ Untouched
        /\ (CallA.pc \in {"save", "failed"} /\ Stale
            /\ result.state.latestUpdate # NoUpdate
            /\ result.state.latestUpdate.nonce # CallA.update.nonce)
             => /\ CallA.pc = "failed"
                /\ CallA.error.message = "StaleChannelNonce"
                /\ Untouched

\* A call failed with StaleChannelNonce on an error whose latestUpdate has
\* another nonce than the update proposed.
C16_Witness ==
    /\ CallA.pc = "failed" /\ CallA.round = 1
    /\ CallA.result.message = "StaleUpdateNonce"
    /\ CallA.result.state.latestUpdate # NoUpdate
    /\ CallA.result.state.latestUpdate.nonce # CallA.update.nonce
    /\ CallA.error.message = "StaleChannelNonce"
    /\ CallA.writes = 0 /\ CallA.sends = 1

\* C18: an invocation on a correctly signed update of nonce k+2 whose
\* message carries a correctly signed latestUpdate that applies to the
\* stored state (the requested update applying on top of it, the save not
\* failing) persists exactly one state, of nonce k+2, equal to
\* applyUpdate(requestedUpdate, applyUpdate(latestUpdate, stored)); no step
\* writes another state, the intermediate one of nonce k+1 included.
C18_OneStepResync ==
    /\ [](LET stored == H.storedState
              synced == applyUpdate(H.msg.latestUpdate, stored)
              final == applyUpdate(H.msg.update, synced)
          IN  (/\ HandledChannelMessage /\ stored # NoState
               /\ H.msg.update.nonce = stored.latestNonce + 2
               /\ SignaturesOk(H.msg.update, H.msg.latestUpdate)
               /\ isChannelState(synced) /\ isChannelState(final)
               /\ ~(H.error # NoError /\ H.error.message = "SaveChannelFailed"))
              => /\ H.writes = 1
                 /\ store["B"]["c1"] = final
                 /\ store["B"]["c1"].latestNonce = stored.latestNonce + 2)
    /\ [][store'["B"]["c1"] # store["B"]["c1"]
            => /\ hnd'["B"]["h1"].writes = 1
               /\ store'["B"]["c1"] = hnd'["B"]["h1"].response]_vars

\* A resync of one step has ended: the store went from nonce k to k+2.
C18_Witness ==
    /\ HandledChannelMessage /\ H.read # NoState /\ H.resynced
    /\ H.outcome = "returned" /\ H.writes = 1
    /\ store["B"]["c1"].latestNonce = H.read.latestNonce + 2
    /\ store["B"]["c1"]
          = applyUpdate(H.msg.update,
                        applyUpdate(H.msg.latestUpdate, H.read))

\* C19: with at most one outbound call at a time on a channel of a node,
\* no step (a save of an inbound invocation, the resync save of the outbound
\* call) lowers the latestNonce a node's store holds for the channel.
C19_StoredNonceMonotonic ==
    [][\A n \in Nodes :
          store'[n]["c1"].latestNonce >= store[n]["c1"].latestNonce]_vars

\* C20: an invocation that raised a ChannelUpdateError has, once ended,
\* posted it exactly once on the node's errorEvt and ended by throwing it,
\* also when the send of the error reply failed.
C20_ErrorAlwaysPublished ==
    (HandledChannelMessage /\ H.error # NoError)
    => /\ H.posts = 1
       /\ H.outcome = "rejected"

\* C21: an invocation that raised a ChannelUpdateError has, once ended,
\* called send exactly once, with the error and to the sender, when the
\* requested update carries one signature (a send that failed is that one
\* call), and has sent nothing when it carries two; it has not gone on to
\* write the store.
C21_ErrorReplyOnlyToWaitingSender ==
    (HandledChannelMessage /\ H.error # NoError)
    => LET sendCalls == H.sent + (IF H.outcome = "transport" THEN 1 ELSE 0)
       IN  /\ IF Len(H.msg.update.commitment.signatures) = 1
              THEN /\ sendCalls = 1
                   /\ Cardinality(net) = H.sent
                   /\ \A m \in net : m = ErrorMessage(H.msg.from, "B", H.error)
              ELSE /\ sendCalls = 0
                   /\ net = {}
           /\ H.writes = 0

\* A single-signed update was rejected and its sender was sent the error.
C21_Witness ==
    /\ HandledChannelMessage /\ H.error # NoError
    /\ Len(H.msg.update.commitment.signatures) = 1
    /\ H.outcome = "rejected" /\ H.sent = 1
    /\ net = {ErrorMessage(H.msg.from, "B", H.error)}

\* C22: an invocation that succeeded on an update of one signature has
\* posted on no bus (it wrote the store once and sent one reply); one that
\* succeeded on an update of two signatures has posted once and sent
\* nothing, and the step that posts finds the new state in the store.
C22_PublicationBySignatureCount ==
    /\ []((/\ HandledChannelMessage /\ H.error = NoError
           /\ H.outcome = "returned")
          => IF Len(H.msg.update.commitment.signatures) = 1
             THEN H.posts = 0 /\ H.writes = 1 /\ H.sent = 1
             ELSE H.posts = 1 /\ H.writes = 1 /\ H.sent = 0 /\ net = {})
    /\ [][(/\ hnd'["B"]["h1"].pc # "idle" /\ hnd["B"]["h1"].pc # "ended"
           /\ isChannelMessage(hnd'["B"]["h1"].msg)
           /\ hnd'["B"]["h1"].posts # 0
           /\ hnd'["B"]["h1"].error = NoError)
            => /\ hnd["B"]["h1"].pc = "post"
               /\ Len(hnd["B"]["h1"].msg.update.commitment.signatures) = 2
               /\ hnd["B"]["h1"].writes = 1
               /\ store["B"]["c1"] = hnd["B"]["h1"].response
               /\ store'["B"]["c1"] = store["B"]["c1"]]_vars

\* An ack was saved and then posted; nothing was sent.
C22_Witness ==
    /\ HandledChannelMessage /\ H.error = NoError /\ H.outcome = "returned"
    /\ Len(H.msg.update.commitment.signatures) = 2
    /\ H.posts = 1 /\ H.writes = 1 /\ H.sent = 0
    /\ store["B"]["c1"] = H.response

\* C23: the reply an invocation sent after countersigning a proposal
\* carries as latestUpdate the latestUpdate of the state the node had stored
\* before it applied the requested update.
C23_AckCarriesPriorLatestUpdate ==
    (/\ HandledChannelMessage /\ H.error = NoError
     /\ H.outcome = "returned" /\ H.sent = 1
     /\ Len(H.msg.update.commitment.signatures) = 1)
    => \A m \in net : m.latestUpdate = H.storedState.latestUpdate

\* C24: once an outbound call has returned or failed, no subscription
\* attached by one of its attempts is attached to a bus of its node.
C24_NoSubscriptionLeft ==
    \A n \in Nodes :
        (call[n]["c1"].pc \in {"done", "failed"})
        => \A sub \in subs[n] :
              ~(/\ sub.id = call[n]["c1"].id
                /\ sub.update.channelAddress = "c1")

============================================================================
